---- MODULE Spec2Model ----
(***************************************************************************)
(* Model of main.go: the HTTP service with the /stations and /input/data   *)
(* handlers, the storage collaborator behind database/sql, and             *)
(* Station.MarshalJSON.  Strings are sequences of one-character strings,   *)
(* so that splitting, quoting, parsing and formatting are computed.        *)
(***************************************************************************)
EXTENDS Integers, Sequences, FiniteSets, TLC

VARIABLES
    phase,         \* "starting", "serving" or "exited": the process
    stationTable,  \* the rows of the Station table
    step,          \* "idle", "pending" (request read) or "done" (handler returned)
    req,           \* the request being served
    resp,          \* what its handler wrote
    stmt,          \* the statement its handler sent to the store
    checks,        \* the validation checks its handler evaluated, in order
    fault          \* the storage failure its handler met

vars == <<phase, stationTable, step, req, resp, stmt, checks, fault>>

----------------------------------------------------------------------------
(* Bounds *)

MaxTokens == 2

MaxStations == 1

----------------------------------------------------------------------------
(* Strings *)

DQ == "\""

Digits == <<"0", "1", "2", "3", "4", "5", "6", "7", "8", "9">>

IsDigit(c) == \E i \in 1..10 : Digits[i] = c

DigitVal(c) == (CHOOSE i \in 1..10 : Digits[i] = c) - 1

RECURSIVE DecimalValue(_)
DecimalValue(s) ==
    IF s = <<>> THEN 0
    ELSE 10 * DecimalValue(SubSeq(s, 1, Len(s) - 1)) + DigitVal(s[Len(s)])

\* strings.Split(s, sep) for a one-character separator
RECURSIVE Split(_, _)
Split(s, sep) ==
    IF \A i \in 1..Len(s) : s[i] # sep THEN <<s>>
    ELSE LET i == CHOOSE i \in 1..Len(s) :
                      s[i] = sep /\ \A j \in 1..(i - 1) : s[j] # sep
         IN  <<SubSeq(s, 1, i - 1)>> \o Split(SubSeq(s, i + 1, Len(s)), sep)

\* strings.Join(elems, sep)
RECURSIVE Join(_, _)
Join(elems, sep) ==
    IF elems = <<>> THEN <<>>
    ELSE IF Len(elems) = 1 THEN elems[1]
    ELSE elems[1] \o <<sep>> \o Join(Tail(elems), sep)

\* strconv.Atoi: optional sign, then at least one digit and digits only.
\* (The int64 range error needs 19 digits and is outside the inputs drawn.)
AtoiPrefix(s) ==
    LET body == IF s # <<>> /\ s[1] \in {"-", "+"} THEN Tail(s) ELSE s
        n == Cardinality({i \in 1..Len(body) :
                             \A j \in 1..i : IsDigit(body[j])})
    IN  IF n < 1 THEN [err |-> TRUE, n |-> 0]
        ELSE [err |-> FALSE, n |-> DecimalValue(SubSeq(body, 1, n))]

Atoi(s) ==
    LET neg  == s # <<>> /\ s[1] = "-"
        body == IF s # <<>> /\ s[1] \in {"-", "+"} THEN Tail(s) ELSE s
    IN  IF Len(body) < 1 \/ \E i \in 1..Len(body) : ~IsDigit(body[i])
        THEN [err |-> TRUE, n |-> 0]
        ELSE LET v == DecimalValue(body)
             IN  [err |-> FALSE, n |-> IF neg THEN 0 - v ELSE v]

----------------------------------------------------------------------------
(* time.Parse("2006-01-02", v) and Time.Format("2006-01-02") *)

IsLeap(y) == y % 4 = 0 /\ (y % 100 # 0 \/ y % 400 = 0)

DaysIn(m, y) ==
    IF m = 2 THEN (IF IsLeap(y) THEN 29 ELSE 28)
    ELSE IF m \in {4, 6, 9, 11} THEN 30 ELSE 31

NoDate == [err |-> TRUE, y |-> 0, m |-> 0, d |-> 0]

ParseDate(v) ==
    IF Len(v) < 4 \/ \E i \in 1..4 : ~IsDigit(v[i]) THEN NoDate
    ELSE IF Len(v) < 5 \/ v[5] # "-" THEN NoDate
    ELSE IF Len(v) < 7 \/ ~IsDigit(v[6]) \/ ~IsDigit(v[7]) THEN NoDate
    ELSE IF Len(v) < 8 \/ v[8] # "-" THEN NoDate
    ELSE IF Len(v) < 10 \/ ~IsDigit(v[9]) \/ ~IsDigit(v[10]) THEN NoDate
    ELSE IF Len(v) > 10 THEN NoDate
    ELSE LET y == DecimalValue(SubSeq(v, 1, 4))
             m == DecimalValue(SubSeq(v, 6, 7))
             d == DecimalValue(SubSeq(v, 9, 10))
         IN  IF m < 1 \/ m > 12 THEN NoDate
             ELSE IF d < 1 \/ d > DaysIn(m, y) THEN NoDate
             ELSE [err |-> FALSE, y |-> y, m |-> m, d |-> d]

Pad(n, width) ==
    [i \in 1..width |-> Digits[((n \div (10 ^ (width - i))) % 10) + 1]]

FormatDate(t) == Pad(t.y, 4) \o <<"-">> \o Pad(t.m, 2) \o <<"-">> \o Pad(t.d, 2)

DateLE(a, b) ==
    \/ a.y < b.y
    \/ a.y = b.y /\ a.m < b.m
    \/ a.y = b.y /\ a.m = b.m /\ a.d <= b.d

\* Byte order of the printable characters (backslash and backquote left out), for comparing strings
Ascii ==
    <<" ", "!", "\"", "#", "$", "%", "&", "'", "(", ")", "*", "+", ",",
    "-", ".", "/", "0", "1", "2", "3", "4", "5", "6", "7", "8", "9",
    ":", ";", "<", "=", ">", "?", "@", "A", "B", "C", "D", "E", "F",
    "G", "H", "I", "J", "K", "L", "M", "N", "O", "P", "Q", "R", "S",
    "T", "U", "V", "W", "X", "Y", "Z", "[", "]", "^", "_",
    "a", "b", "c", "d", "e", "f", "g", "h", "i", "j", "k", "l", "m",
    "n", "o", "p", "q", "r", "s", "t", "u", "v", "w", "x", "y", "z",
    "{", "|", "}", "~">>

Code(c) == CHOOSE i \in 1..Len(Ascii) : Ascii[i] = c

RECURSIVE StrLess(_, _)
StrLess(a, b) ==
    IF b = <<>> THEN FALSE
    ELSE IF a = <<>> THEN TRUE
    ELSE IF a[1] # b[1] THEN Code(a[1]) < Code(b[1])
    ELSE StrLess(Tail(a), Tail(b))

----------------------------------------------------------------------------
(* encoding/json values *)

JNull == [t |-> "null"]

JBool(b) == [t |-> "bool", v |-> b]

JNum(n) == [t |-> "num", v |-> n]

JStr(s) == [t |-> "str", v |-> s]

JArr(items) == [t |-> "arr", v |-> items]

\* members: sequence of <<key, value>> in emission order
JObj(members) == [t |-> "obj", v |-> members]

JKeys(o) == {o.v[i][1] : i \in 1..Len(o.v)}

JCount(o, k) == Cardinality({i \in 1..Len(o.v) : o.v[i][1] = k})

JGet(o, k) == o.v[CHOOSE i \in 1..Len(o.v) : o.v[i][1] = k][2]

\* float64: NaN cannot be encoded (json.UnsupportedValueError)
Float(n) == [nan |-> FALSE, n |-> n]

NaN == [nan |-> TRUE, n |-> 0]

EncOK(j) == [err |-> FALSE, json |-> j]

EncErr == [err |-> TRUE, json |-> JNull]

EncodeFloat(f) == IF f.nan THEN EncErr ELSE EncOK(JNum(f.n))

\* A struct field as encoding/json sees it: JSON name, embedding depth,
\* whether the name comes from a tag, and the field's encoding.
Field(name, depth, tagged, enc) ==
    [name |-> name, depth |-> depth, tagged |-> tagged, enc |-> enc]

\* encoding/json's dominant-field rule: among the fields with one JSON name
\* the shallowest wins; a tie is broken by a tagged field, else none is kept.
Dominant(fields, i) ==
    LET same == {j \in 1..Len(fields) : fields[j].name = fields[i].name}
        top  == {j \in same : \A k \in same : fields[j].depth <= fields[k].depth}
        tag  == {j \in top : fields[j].tagged}
    IN  \/ top = {i}
        \/ Cardinality(top) > 1 /\ tag = {i}

RECURSIVE EncodeFields(_, _)
EncodeFields(fields, i) ==
    IF i > Len(fields) THEN EncOK(JObj(<<>>))
    ELSE LET rest == EncodeFields(fields, i + 1)
         IN  IF ~Dominant(fields, i) THEN rest
             ELSE IF fields[i].enc.err \/ rest.err THEN EncErr
             ELSE EncOK(JObj(<<<<fields[i].name, fields[i].enc.json>>>>
                              \o rest.json.v))

\* The fields of Alias (= Station without its methods), embedded at depth 1
AliasFields(s) ==
    << Field("station_number", 1, TRUE, EncOK(JNum(s.StationNumber))),
       Field("station_name", 1, TRUE, EncOK(JStr(s.StationName))),
       Field("latitude", 1, TRUE, EncodeFloat(s.Latitude)),
       Field("longitude", 1, TRUE, EncodeFloat(s.Longitude)),
       Field("elevation", 1, TRUE,
             IF s.Elevation.Float64.nan THEN EncErr
             ELSE EncOK(JObj(<< <<"Float64", JNum(s.Elevation.Float64.n)>>,
                                <<"Valid", JBool(s.Elevation.Valid)>> >>))) >>

MarshalJSONCoerce(s) ==
    EncodeFields(AliasFields(s)
                   \o <<Field("elevation", 0, TRUE, EncodeFloat(s.Elevation.Float64))>>,
                 1)

\* Station.MarshalJSON
MarshalJSON(s) ==
    IF s.Elevation.Valid
    THEN EncodeFields(AliasFields(s)
                        \o <<Field("elevation", 0, TRUE,
                                   EncodeFloat(s.Elevation.Float64))>>, 1)
    ELSE EncodeFields(AliasFields(s)
                        \o <<Field("elevation", 0, TRUE, EncOK(JNull))>>, 1)

\* json.Marshal([]Station): a non-nil slice is an array; the first element
\* that fails to encode fails the whole call
RECURSIVE MarshalStations(_)
MarshalStations(stations) ==
    IF stations = <<>> THEN EncOK(JArr(<<>>))
    ELSE LET head == MarshalJSON(stations[1])
             rest == MarshalStations(Tail(stations))
         IN  IF head.err \/ rest.err THEN EncErr
             ELSE EncOK(JArr(<<head.json>> \o rest.json.v))

----------------------------------------------------------------------------
(* The storage collaborator: PostgreSQL behind database/sql and lib/pq *)

\* A driver value as Scan stores it in an interface{}
NullCell == [null |-> TRUE, kind |-> "null", i |-> 0, f |-> Float(0), s |-> <<>>]

IntCell(n) == [null |-> FALSE, kind |-> "int", i |-> n, f |-> Float(0), s |-> <<>>]

FloatCell(x) == [null |-> FALSE, kind |-> "float", i |-> 0, f |-> x, s |-> <<>>]

TextCell(str) == [null |-> FALSE, kind |-> "text", i |-> 0, f |-> Float(0), s |-> str]

Tn == <<"t", "n">>

Tx == <<"t", "x">>

Tanggal == <<"T", "a", "n", "g", "g", "a", "l">>

WeatherColumns == {Tn, Tx, Tanggal}

WeatherRow(station, date, tn, tx) ==
    [station_number |-> station, Tanggal |-> TextCell(date), tn |-> tn, tx |-> tx]

\* The observations in the store (Weather struct: nullable measurements)
WeatherTable ==
    << WeatherRow(1, <<"2","0","2","3","-","0","1","-","1","5">>, FloatCell(Float(24)), NullCell),
       WeatherRow(1, <<"2","0","2","3","-","0","1","-","2","0">>, FloatCell(Float(0)), FloatCell(Float(31))),
       WeatherRow(2, <<"2","0","2","3","-","0","1","-","1","5">>, NullCell, FloatCell(Float(30))) >>

CellOf(row, col) ==
    IF col = Tn THEN row.tn ELSE IF col = Tx THEN row.tx ELSE row.Tanggal

SelectKw == <<"S", "E", "L", "E", "C", "T", " ">>

QueryTail ==
    <<",", "\"", "T", "a", "n", "g", "g", "a", "l", "\"", " ", "F", "R",
      "O", "M", " ", "\"", "W", "e", "a", "t", "h", "e", "r", "\"", " ",
      "W", "H", "E", "R", "E", " ", "s", "t", "a", "t", "i", "o", "n", "_",
      "n", "u", "m", "b", "e", "r", " ", "=", " ", "$", "1", " ", "A", "N",
      "D", " ", "T", "O", "_", "D", "A", "T", "E", "(", "\"", "T", "a",
      "n", "g", "g", "a", "l", "\"", ",", " ", "'", "Y", "Y", "Y", "Y",
      "-", "M", "M", "-", "D", "D", "'", ")", " ", "B", "E", "T", "W", "E",
      "E", "N", " ", "$", "2", " ", "A", "N", "D", " ", "$", "3">>

\* The scanner: a double quote opens a delimited identifier, a doubled
\* double quote inside one is a literal quote, a single one closes it.
\* Lexemes: [k = "id"] with the text between the delimiters, [k = "raw"]
\* for a character outside any identifier, [k = "open"] for an identifier
\* the text ends in.
NextQuote(text, i) ==
    IF \E j \in i..Len(text) : text[j] = DQ
    THEN CHOOSE j \in i..Len(text) :
             text[j] = DQ /\ \A k \in i..(j - 1) : text[k] # DQ
    ELSE Len(text) + 1

RECURSIVE LexFrom(_, _, _, _)
LexFrom(text, i, inId, cur) ==
    LET q == NextQuote(text, i)
    IN  IF ~inId
        THEN [j \in 1..(q - i) |-> [k |-> "raw", s |-> <<text[i + j - 1]>>]]
               \o (IF q > Len(text) THEN <<>> ELSE LexFrom(text, q + 1, TRUE, <<>>))
        ELSE IF q > Len(text)
        THEN <<[k |-> "open", s |-> cur \o SubSeq(text, i, Len(text))]>>
        ELSE IF q < Len(text) /\ text[q + 1] = DQ
        THEN LexFrom(text, q + 2, TRUE, cur \o SubSeq(text, i, q - 1) \o <<DQ, DQ>>)
        ELSE <<[k |-> "id", s |-> cur \o SubSeq(text, i, q - 1)]>>
               \o LexFrom(text, q + 1, FALSE, <<>>)

Lex(text) == LexFrom(text, 1, FALSE, <<>>)

\* The name a delimited identifier denotes: "" stands for one quote
RECURSIVE IdentName(_)
IdentName(raw) ==
    IF raw = <<>> THEN <<>>
    ELSE IF Len(raw) >= 2 /\ raw[1] = DQ /\ raw[2] = DQ
    THEN <<DQ>> \o IdentName(SubSeq(raw, 3, Len(raw)))
    ELSE <<raw[1]>> \o IdentName(Tail(raw))

\* The statement with every identifier replaced by one mark
Skeleton(lexemes) ==
    [i \in 1..Len(lexemes) |->
        IF lexemes[i].k = "raw" THEN lexemes[i].s[1] ELSE lexemes[i].k]

Comma == [k |-> "raw", s |-> <<",">>]

Blank == [k |-> "raw", s |-> <<" ">>]

\* One entry of the select list: a column, or a column and its alias
ItemOK(item) ==
    /\ Len(item) >= 1
    /\ item[1].k = "id" /\ item[1].s # <<>>
    /\ \/ Len(item) = 1
       \/ /\ Len(item) >= 3
          /\ item[Len(item)].k = "id" /\ item[Len(item)].s # <<>>
          /\ \A j \in 2..(Len(item) - 1) : item[j] = Blank

ParseFail == [err |-> TRUE, items |-> <<>>]

\* The select list: the column each entry reads and the name it is given
ParseItems(items) ==
    IF \E j \in 1..Len(items) : ~ItemOK(items[j]) THEN ParseFail
    ELSE [err |-> FALSE,
          items |-> [j \in 1..Len(items) |->
                        [src |-> IdentName(items[j][1].s),
                         out |-> IdentName(items[j][Len(items[j])].s)]]
                      \o <<[src |-> Tanggal, out |-> Tanggal]>>]

ParseLexemes(lexemes, tail) ==
    IF Len(lexemes) - Len(tail) <= Len(SelectKw) THEN ParseFail
    ELSE IF Skeleton(SubSeq(lexemes, 1, Len(SelectKw))) # SelectKw THEN ParseFail
    ELSE IF SubSeq(lexemes, Len(lexemes) - Len(tail) + 1, Len(lexemes)) # tail
    THEN ParseFail
    ELSE ParseItems(Split(SubSeq(lexemes, Len(SelectKw) + 1,
                                 Len(lexemes) - Len(tail)), Comma))

\* The statements the store accepts: SELECT item {, item} followed by the
\* fixed tail; every other text is rejected as a syntax error.
ParseSelect(text) == ParseLexemes(Lex(text), Lex(QueryTail))

RECURSIVE Filter(_, _, _, _)
Filter(table, station, lo, hi) ==
    IF table = <<>> THEN <<>>
    ELSE LET d    == ParseDate(table[1].Tanggal.s)
             keep == /\ table[1].station_number = station
                     /\ DateLE(lo, d) /\ DateLE(d, hi)
         IN  (IF keep THEN <<table[1]>> ELSE <<>>)
               \o Filter(Tail(table), station, lo, hi)

\* The rows of the Weather table the WHERE clause keeps
Matching(arg1, arg2, arg3) ==
    Filter(WeatherTable, Atoi(arg1).n, ParseDate(arg2), ParseDate(arg3))

ExecFail == [err |-> TRUE, columns |-> <<>>, rows |-> <<>>]

Answer(items, matched) ==
    [err |-> FALSE,
     columns |-> [j \in 1..Len(items) |-> items[j].out],
     rows |-> [r \in 1..Len(matched) |->
                  [j \in 1..Len(items) |-> CellOf(matched[r], items[j].src)]]]

ExecParsed(parsed, arg1, arg2, arg3) ==
    IF parsed.err THEN ExecFail
    ELSE IF \E j \in 1..Len(parsed.items) : parsed.items[j].src \notin WeatherColumns
    THEN ExecFail
    ELSE Answer(parsed.items, Matching(arg1, arg2, arg3))

\* db.Query(query, $1, $2, $3) as the store answers it: a syntax error, an
\* unknown column, or the selected columns of the matching rows
Exec(text, arg1, arg2, arg3) == ExecParsed(ParseSelect(text), arg1, arg2, arg3)

----------------------------------------------------------------------------
(* The Station table and rows.Scan into a Station *)

StationRow(number, name, lat, long, elevation) ==
    [station_number |-> IntCell(number), station_name |-> TextCell(name),
     latitude |-> FloatCell(Float(lat)), longitude |-> FloatCell(Float(long)),
     elevation |-> elevation]

StationRows ==
    { StationRow(1, <<"A">>, 6, 106, FloatCell(Float(4))),
      StationRow(2, <<"B">>, 7, 107, FloatCell(Float(0))),
      StationRow(3, <<"C">>, 0, 110, NullCell),
      StationRow(4, <<"D">>, 3, 98, FloatCell(NaN)) }

StationTables ==
    UNION {[1..n -> StationRows] : n \in 0..MaxStations}

ZeroStation ==
    [StationNumber |-> 0, StationName |-> <<>>, Latitude |-> Float(0),
     Longitude |-> Float(0), Elevation |-> [Float64 |-> Float(0), Valid |-> FALSE]]

\* rows.Scan(&station.StationNumber, ..., &station.Elevation): NULL cannot be
\* stored in an int, string or float64; sql.NullFloat64 records it as invalid
ScanStation(row) ==
    IF \/ row.station_number.null \/ row.station_name.null
       \/ row.latitude.null \/ row.longitude.null
    THEN [err |-> TRUE, station |-> ZeroStation]
    ELSE [err |-> FALSE,
          station |->
            [StationNumber |-> row.station_number.i,
             StationName |-> row.station_name.s,
             Latitude |-> row.latitude.f,
             Longitude |-> row.longitude.f,
             Elevation |-> IF row.elevation.null
                           THEN [Float64 |-> Float(0), Valid |-> FALSE]
                           ELSE [Float64 |-> row.elevation.f, Valid |-> TRUE]]]

----------------------------------------------------------------------------
(* Responses and handler outcomes *)

NoResp == [status |-> 0, ctype |-> "none", text |-> "", json |-> JNull]

Preflight == [status |-> 200, ctype |-> "none", text |-> "", json |-> JNull]

OkJSON(j) == [status |-> 200, ctype |-> "application/json", text |-> "", json |-> j]

\* http.Error(w, "Invalid request. Missing data types.", http.StatusBadRequest)
BadRequest ==
    [status |-> 400, ctype |-> "text/plain", json |-> JNull,
     text |-> "Invalid request. Missing data types."]

NoFault == [kind |-> "none", at |-> 0]

Fault(kind, at) == [kind |-> kind, at |-> at]

Outcome(r, exit, statement, evaluated, f) ==
    [resp |-> r, exit |-> exit, stmt |-> statement, checks |-> evaluated, fault |-> f]

\* log.Fatal: the process exits, nothing is written to the client
Fatal(statement, evaluated, f) == Outcome(NoResp, TRUE, statement, evaluated, f)

\* a panic in a handler: net/http recovers it and drops the connection
Panic(statement, evaluated) == Outcome(NoResp, FALSE, statement, evaluated, NoFault)

\* The storage fault that reaches a handler reading n rows: the query
\* fails, rows.Columns fails, rows.Scan fails on row at, or rows.Next stops
\* with an error after at rows
Effective(f, n) ==
    IF f.kind \in {"query", "columns"} THEN f
    ELSE IF f.kind = "scan" /\ f.at \in 1..n THEN f
    ELSE IF f.kind = "iter" /\ f.at \in 0..n THEN f
    ELSE NoFault

----------------------------------------------------------------------------
(* GET /stations *)

RECURSIVE ScanAll(_)
ScanAll(rows) ==
    IF rows = <<>> THEN [err |-> FALSE, stations |-> <<>>]
    ELSE LET head == ScanStation(rows[1])
             rest == ScanAll(Tail(rows))
         IN  IF head.err \/ rest.err THEN [err |-> TRUE, stations |-> <<>>]
             ELSE [err |-> FALSE, stations |-> <<head.station>> \o rest.stations]

StationsQuery ==
    <<"S","E","L","E","C","T"," ","*"," ","F","R","O","M"," ",
      "\"","S","t","a","t","i","o","n","\"">>

Stations(table, injected) ==
    LET f       == Effective(injected, Len(table))
        scanned == ScanAll(table)
        encoded == MarshalStations(scanned.stations)
    IN  IF f.kind = "query" THEN Fatal(StationsQuery, <<>>, f)
        ELSE IF f.kind = "scan" THEN Fatal(StationsQuery, <<>>, f)
        ELSE IF f.kind = "iter" THEN Fatal(StationsQuery, <<>>, f)
        ELSE IF scanned.err THEN Fatal(StationsQuery, <<>>, Fault("scan", 0))
        ELSE IF encoded.err THEN Fatal(StationsQuery, <<>>, NoFault)
        ELSE Outcome(OkJSON(encoded.json), FALSE, StationsQuery, <<>>, NoFault)

----------------------------------------------------------------------------
(* GET /input/data *)

\* dataTypes[i] = `"` + dataTypes[i] + `"`
QuoteAll(dataTypes) ==
    [i \in 1..Len(dataTypes) |-> <<DQ>> \o dataTypes[i] \o <<DQ>>]

Checked(evaluated, outcome, dataType, startDate, endDate) ==
    [checks |-> evaluated, outcome |-> outcome, dataType |-> dataType,
     startDate |-> startDate, endDate |-> endDate]

ValidateDateFirst(dataType, stationNumber, dateRangeParts) ==
    IF ParseDate(dateRangeParts[1]).err
    THEN Checked(<<"dateRange">>, "fatal", dataType, NoDate, NoDate)
    ELSE IF Len(dateRangeParts) < 2
    THEN Checked(<<"dateRange">>, "panic", dataType, NoDate, NoDate)
    ELSE IF ParseDate(dateRangeParts[2]).err
    THEN Checked(<<"dateRange">>, "fatal", dataType, NoDate, NoDate)
    ELSE IF dataType = <<DQ, DQ>>
    THEN Checked(<<"dateRange", "type">>, "badRequest", dataType, NoDate, NoDate)
    ELSE IF Atoi(stationNumber).err
    THEN Checked(<<"dateRange", "type", "stationNumber">>, "badRequest",
                 dataType, NoDate, NoDate)
    ELSE Checked(<<"dateRange", "type", "stationNumber">>, "ok", dataType,
                 ParseDate(dateRangeParts[1]), ParseDate(dateRangeParts[2]))

\* The checks of the handler in the order it makes them, with the way each
\* one ends the request: http.Error and return, log.Fatal, or the index
\* panic of dateRangeParts[1]
Validate(dataType, stationNumber, dateRangeParts) ==
    IF dataType = <<DQ, DQ>>
    THEN Checked(<<"type">>, "badRequest", dataType, NoDate, NoDate)
    ELSE IF Atoi(stationNumber).err
    THEN Checked(<<"type", "stationNumber">>, "badRequest",
                 dataType, NoDate, NoDate)
    ELSE IF ParseDate(dateRangeParts[1]).err
    THEN Checked(<<"type", "stationNumber", "dateRange">>, "fatal",
                 dataType, NoDate, NoDate)
    ELSE IF Len(dateRangeParts) < 2
    THEN Checked(<<"type", "stationNumber", "dateRange">>, "panic",
                 dataType, NoDate, NoDate)
    ELSE IF ParseDate(dateRangeParts[2]).err
    THEN Checked(<<"type", "stationNumber", "dateRange">>, "fatal",
                 dataType, NoDate, NoDate)
    ELSE Checked(<<"type", "stationNumber", "dateRange">>, "ok", dataType,
                 ParseDate(dateRangeParts[1]), ParseDate(dateRangeParts[2]))

ValidationDateFirst(type, stationNumber, dateRange) ==
    ValidateDateFirst(Join(QuoteAll(Split(type, ",")), ","), stationNumber,
                      Split(dateRange, ","))

\* dataTypes split, quoted and joined; dateRange split; then the checks
Validation(type, stationNumber, dateRange) ==
    Validate(Join(QuoteAll(Split(type, ",")), ","), stationNumber,
             Split(dateRange, ","))

\* query := "SELECT " + dataType + ",\"Tanggal\" FROM ..."
BuildQuery(dataType) == SelectKw \o dataType \o QueryTail

\* resultMap[columns[i]] = val, for i in order: a later column of the same
\* name overwrites an earlier one
ResultMap(columns, values) ==
    [key \in {columns[i] : i \in 1..Len(columns)} |->
        values[CHOOSE i \in 1..Len(columns) :
                  /\ columns[i] = key
                  /\ \A j \in 1..Len(columns) : columns[j] = key => j <= i]]

RECURSIVE SortKeys(_)
SortKeys(keys) ==
    IF keys = {} THEN <<>>
    ELSE LET least == CHOOSE key \in keys :
                          \A other \in keys \ {key} : StrLess(key, other)
         IN  <<least>> \o SortKeys(keys \ {least})

\* json.Marshal of an interface{} holding a driver value
EncodeCell(cell) ==
    IF cell.null THEN EncOK(JNull)
    ELSE IF cell.kind = "float" THEN EncodeFloat(cell.f)
    ELSE IF cell.kind = "int" THEN EncOK(JNum(cell.i))
    ELSE EncOK(JStr(cell.s))

EncodeMembers(m, keys) ==
    IF \E i \in 1..Len(keys) : EncodeCell(m[keys[i]]).err THEN EncErr
    ELSE EncOK(JObj([i \in 1..Len(keys) |->
                        <<keys[i], EncodeCell(m[keys[i]]).json>>]))

\* json.Marshal of a map[string]interface{}: keys in sorted order
EncodeMap(m) == EncodeMembers(m, SortKeys(DOMAIN m))

\* json.Marshal(results): results is a nil slice until the first append
MarshalResults(results) ==
    IF results = <<>> THEN EncOK(JNull)
    ELSE IF \E i \in 1..Len(results) : EncodeMap(results[i]).err THEN EncErr
    ELSE EncOK(JArr([i \in 1..Len(results) |-> EncodeMap(results[i]).json]))

\* The loop over rows.Next(): rows.Columns() fails only on closed rows, and
\* then rows.Next() is false at once; after an iteration error the rows read
\* so far stay in results
Results(answer, f) ==
    IF f.kind = "columns" THEN <<>>
    ELSE [r \in 1..(IF f.kind = "iter" THEN f.at ELSE Len(answer.rows)) |->
             ResultMap(answer.columns, answer.rows[r])]

Respond(evaluated, query, f, encoded) ==
    IF encoded.err THEN Fatal(query, evaluated, f)
    ELSE Outcome(OkJSON(encoded.json), FALSE, query, evaluated, f)

Iterate(evaluated, query, answer, f) ==
    IF f.kind = "query" THEN Fatal(query, evaluated, f)
    ELSE IF answer.err THEN Fatal(query, evaluated, Fault("rejected", 0))
    ELSE IF f.kind = "scan" THEN Fatal(query, evaluated, f)
    ELSE Respond(evaluated, query, f, MarshalResults(Results(answer, f)))

Query(evaluated, query, stationNumber, startDate, endDate, injected) ==
    Iterate(evaluated, query, Exec(query, stationNumber, startDate, endDate),
            Effective(injected,
                      Len(Exec(query, stationNumber, startDate, endDate).rows)))

Validated(v, stationNumber, injected) ==
    IF v.outcome = "badRequest"
    THEN Outcome(BadRequest, FALSE, <<>>, v.checks, NoFault)
    ELSE IF v.outcome = "fatal" THEN Fatal(<<>>, v.checks, NoFault)
    ELSE IF v.outcome = "panic" THEN Panic(<<>>, v.checks)
    ELSE Query(v.checks, BuildQuery(v.dataType), stationNumber,
               FormatDate(v.startDate), FormatDate(v.endDate), injected)

InputData(method, type, stationNumber, dateRange, injected) ==
    IF method = "OPTIONS"
    THEN Outcome(Preflight, FALSE, <<>>, <<>>, NoFault)
    ELSE Validated(Validation(type, stationNumber, dateRange),
                   stationNumber, injected)

----------------------------------------------------------------------------
(* The requests drawn *)

Methods == {"GET", "OPTIONS"}

TokenInputs ==
    { <<>>,
      Tn,
      Tx,
      <<"t", "n", ";", "t", "x">>,
      <<"\"", "t", "n">>,
      <<"t", "n", "\"", " ", "\"", "t", "x">> }

TypeInputs ==
    UNION {{Join(tokens, ",") : tokens \in [1..n -> TokenInputs]} : n \in 1..MaxTokens}

StationNumberInputs ==
    { <<>>, <<"1">>, <<"+", "2">>, <<"1", "a">>, <<"a", "b", "c">> }

D0101 == <<"2", "0", "2", "3", "-", "0", "1", "-", "0", "1">>

D0115 == <<"2", "0", "2", "3", "-", "0", "1", "-", "1", "5">>

D0131 == <<"2", "0", "2", "3", "-", "0", "1", "-", "3", "1">>

D0230 == <<"2", "0", "2", "3", "-", "0", "2", "-", "3", "0">>

DateRangeInputs ==
    { <<>>,
      D0101,
      D0101 \o <<",">> \o D0131,
      D0101 \o <<",">> \o D0115,
      D0131 \o <<",">> \o D0101,
      D0101 \o <<",">> \o D0230,
      <<"x", ",">> \o D0131,
      D0101 \o <<",">> \o D0131 \o <<",">> \o D0115 }

FaultInputs ==
    {NoFault, Fault("query", 0), Fault("columns", 0)}
      \cup {Fault("scan", at) : at \in 1..Len(WeatherTable)}
      \cup {Fault("iter", at) : at \in 0..Len(WeatherTable)}

StationFaultInputs ==
    {NoFault, Fault("query", 0)}
      \cup {Fault("scan", at) : at \in 1..MaxStations}
      \cup {Fault("iter", at) : at \in 0..MaxStations}

StartFaultKinds == {"none", "open", "query", "scan", "iter"}

NoReq ==
    [route |-> "none", method |-> "", type |-> <<>>, stationNumber |-> <<>>,
     dateRange |-> <<>>]

----------------------------------------------------------------------------
(* The process *)

Init ==
    /\ phase = "starting"
    /\ stationTable \in StationTables
    /\ step = "idle"
    /\ req = NoReq
    /\ resp = NoResp
    /\ stmt = <<>>
    /\ checks = <<>>
    /\ fault = NoFault

\* main up to http.ListenAndServe: sql.Open and the table-name query, any
\* failure of which is a log.Fatal
Start ==
    /\ phase = "starting"
    /\ \E kind \in StartFaultKinds :
          /\ phase' = IF kind = "none" THEN "serving" ELSE "exited"
          /\ fault' = Fault(kind, 0)
    /\ UNCHANGED <<stationTable, step, req, resp, stmt, checks>>

\* http.ListenAndServe reads a request and picks the handler by its path
Receive ==
    /\ phase = "serving"
    /\ step = "idle"
    /\ \/ \E method \in Methods :
             req' = [NoReq EXCEPT !.route = "/stations", !.method = method]
       \/ \E method \in Methods, type \in TypeInputs,
             stationNumber \in StationNumberInputs,
             dateRange \in DateRangeInputs :
             req' = [route |-> "/input/data", method |-> method, type |-> type,
                     stationNumber |-> stationNumber, dateRange |-> dateRange]
    /\ step' = "pending"
    /\ resp' = NoResp
    /\ stmt' = <<>>
    /\ checks' = <<>>
    /\ fault' = NoFault
    /\ UNCHANGED <<phase, stationTable>>

Finish(out) ==
    /\ step' = "done"
    /\ resp' = out.resp
    /\ stmt' = out.stmt
    /\ checks' = out.checks
    /\ fault' = out.fault
    /\ phase' = IF out.exit THEN "exited" ELSE "serving"
    /\ UNCHANGED <<stationTable, req>>

StationsHandler ==
    /\ phase = "serving"
    /\ step = "pending"
    /\ req.route = "/stations"
    /\ \E injected \in StationFaultInputs :
          Finish(Stations(stationTable, injected))

InputDataHandler ==
    /\ phase = "serving"
    /\ step = "pending"
    /\ req.route = "/input/data"
    /\ \E injected \in FaultInputs :
          Finish(InputData(req.method, req.type, req.stationNumber,
                           req.dateRange, injected))

\* The response is on the wire and the handler's locals are gone; the server
\* waits for the next request
Complete ==
    /\ phase = "serving"
    /\ step = "done"
    /\ step' = "idle"
    /\ req' = NoReq
    /\ resp' = NoResp
    /\ stmt' = <<>>
    /\ checks' = <<>>
    /\ fault' = NoFault
    /\ UNCHANGED <<phase, stationTable>>

Next == Start \/ Receive \/ StationsHandler \/ InputDataHandler \/ Complete

Spec == Init /\ [][Next]_vars

----------------------------------------------------------------------------
(* Properties *)

Handled == step = "done"

DataGet == Handled /\ req.route = "/input/data" /\ req.method = "GET"

IsStorageFault(f) == f.kind \in {"query", "rejected", "columns", "scan", "iter"}

OnlyCommas(type) == \A i \in 1..Len(type) : type[i] = ","

\* The decimal integers: an optional sign and then one or more digits
IsDecimalInteger(s) ==
    \E sign \in {<<>>, <<"+">>, <<"-">>} :
        /\ Len(s) > Len(sign)
        /\ SubSeq(s, 1, Len(sign)) = sign
        /\ \A i \in (Len(sign) + 1)..Len(s) : IsDigit(s[i])

WellFormedDateRange(s) ==
    LET parts == Split(s, ",")
    IN  /\ Len(parts) = 2
        /\ ~ParseDate(parts[1]).err
        /\ ~ParseDate(parts[2]).err

IsIdentifier(lexeme) == lexeme.k # "raw"

\* SELECT id {, id} with n + 1 identifiers, then FROM id WHERE ... as in the
\* source text, every identifier reduced to one mark
ShapeOf(n) ==
    SelectKw
      \o [i \in 1..(2 * n - 1) |-> IF i % 2 = 1 THEN "id" ELSE ","]
      \o Skeleton(Lex(QueryTail))

FixedShape(text, tokens) ==
    LET lexemes == Lex(text)
        ids     == SelectSeq(lexemes, IsIdentifier)
    IN  /\ Skeleton(lexemes) = ShapeOf(Len(tokens))
        /\ \A i \in 1..Len(tokens) : ids[i].s = tokens[i]

Requested == {Split(req.type, ",")[i] : i \in 1..Len(Split(req.type, ","))}

\* The rows of the store that the request's station and dates select
MatchingRows ==
    Matching(req.stationNumber, Split(req.dateRange, ",")[1],
             Split(req.dateRange, ",")[2])

\* C1: a storage failure during a request to /stations or /input/data ends
\* that request with a 500 response and leaves the process serving.
C1_StorageFailureIsolated ==
    (Handled /\ IsStorageFault(fault)) => (phase = "serving" /\ resp.status = 500)

\* C2: a GET /input/data whose type is empty or only commas is answered 400
\* and sends no statement to the store.
C2_OnlyCommasRejected ==
    (DataGet /\ OnlyCommas(req.type)) => (resp.status = 400 /\ stmt = <<>>)

\* C3: a GET /input/data with a non-empty type and a stationNumber that is
\* not an integer is answered 400 and sends no statement to the store.
C3_BadStationRejected ==
    (DataGet /\ req.type # <<>> /\ ~IsDecimalInteger(req.stationNumber))
        => (resp.status = 400 /\ stmt = <<>>)

C3_Witness ==
    /\ DataGet
    /\ req.type = Tn
    /\ req.stationNumber = <<"a", "b", "c">>
    /\ resp.status = 400

\* C4: a GET /input/data with a valid type and stationNumber whose dateRange
\* is not two parseable dates around one comma is answered 400, with the
\* process still serving.
C4_BadDateRangeRejected ==
    (DataGet /\ req.type # <<>> /\ ~OnlyCommas(req.type)
       /\ IsDecimalInteger(req.stationNumber)
       /\ ~WellFormedDateRange(req.dateRange))
        => (resp.status = 400 /\ phase = "serving")

\* C5: every statement /input/data sends keeps the fixed shape, each token of
\* type lying wholly inside one quoted identifier.
C5_StatementShapeFixed ==
    (DataGet /\ stmt # <<>>) => FixedShape(stmt, Split(req.type, ","))

\* C6: every object of a successful /input/data response has exactly the
\* requested fields and the date column as keys, and a stored NULL is a
\* present key with value null.
C6_KeysAndNulls ==
    (DataGet /\ resp.status = 200 /\ resp.json.t = "arr") =>
        \A r \in 1..Len(resp.json.v) :
            /\ JKeys(resp.json.v[r]) = Requested \cup {Tanggal}
            /\ \A col \in Requested \cap WeatherColumns :
                  (JGet(resp.json.v[r], col).t = "null")
                      <=> CellOf(MatchingRows[r], col).null

\* C7: the JSON of a Station has exactly one elevation key, null exactly
\* when the stored elevation is absent and else the stored number, and the
\* other four fields unchanged.
C7_ElevationNullOrValue ==
    (Handled /\ req.route = "/stations" /\ resp.status = 200) =>
        /\ resp.json.t = "arr"
        /\ Len(resp.json.v) = Len(stationTable)
        /\ \A i \in 1..Len(stationTable) :
              LET o   == resp.json.v[i]
                  row == stationTable[i]
              IN  /\ Len(o.v) = 5
                  /\ JCount(o, "elevation") = 1
                  /\ (JGet(o, "elevation").t = "null") <=> row.elevation.null
                  /\ ~row.elevation.null =>
                        JGet(o, "elevation") = JNum(row.elevation.f.n)
                  /\ JCount(o, "station_number") = 1
                  /\ JGet(o, "station_number") = JNum(row.station_number.i)
                  /\ JCount(o, "station_name") = 1
                  /\ JGet(o, "station_name") = JStr(row.station_name.s)
                  /\ JCount(o, "latitude") = 1
                  /\ JGet(o, "latitude") = JNum(row.latitude.f.n)
                  /\ JCount(o, "longitude") = 1
                  /\ JGet(o, "longitude") = JNum(row.longitude.f.n)

C7_Witness ==
    /\ Handled /\ req.route = "/stations" /\ resp.status = 200
    /\ Len(stationTable) >= 1
    /\ stationTable[1].elevation.null
    /\ JGet(resp.json.v[1], "elevation").t = "null"

\* C8: the body of a successful /input/data response is a JSON array with one
\* object per matching row, the empty array when no row matches.
C8_ArrayPerMatchingRow ==
    (DataGet /\ resp.status = 200) =>
        /\ resp.json.t = "arr"
        /\ Len(resp.json.v) = Len(MatchingRows)

\* C9: /input/data checks type, then stationNumber, then dateRange, and stops
\* at the first failure: an empty type or a non-integer stationNumber is
\* answered 400 with the process serving and dateRange never looked at.
C9_ValidationShortCircuits ==
    DataGet =>
        /\ \E n \in 0..3 : checks = SubSeq(<<"type", "stationNumber", "dateRange">>, 1, n)
        /\ (req.type = <<>> \/ ~IsDecimalInteger(req.stationNumber)) =>
              /\ resp.status = 400
              /\ phase = "serving"
              /\ \A i \in 1..Len(checks) : checks[i] # "dateRange"

C9_Witness ==
    /\ DataGet
    /\ req.type = <<>>
    /\ ~WellFormedDateRange(req.dateRange)
    /\ resp.status = 400
    /\ phase = "serving"
    /\ checks = <<"type">>

\* C10: a storage error while /input/data reads the result (the cursor stops
\* with an error, a row cannot be scanned, the columns cannot be read) is
\* answered 500, never with a success response.
C10_IterationErrorReported ==
    (DataGet /\ fault.kind \in {"columns", "scan", "iter"}) => resp.status = 500

====
